---- MODULE Spec2Model ----
\* Loading coaster_blas/sidebar-items.js: a script of one expression statement,
\*   initSidebarItems({"macro":[...],"mod":[...]});
\* evaluated step by step in a JavaScript global environment.  The model keeps
\* the literal of the source as a syntax tree, evaluates it in source order and
\* records the calls that the callee receives.
EXTENDS Integers, Sequences, FiniteSets, TLC

\* Number of global bindings of the environment besides initSidebarItems.
NumOtherGlobals == 1

\* ---------------------------------------------------------------------------
\* Source text.  A JavaScript string is a sequence of UTF-16 code units; the
\* characters that occur in the file are listed here with their code unit.
\* "U+2019" stands for the right single quotation mark of "Coaster's".
\* ---------------------------------------------------------------------------
CodeUnit ==
    (" " :> 32) @@ ("." :> 46) @@ ("2" :> 50) @@ ("B" :> 66) @@ ("C" :> 67) @@ ("F" :> 70) @@
    ("I" :> 73) @@ ("L" :> 76) @@ ("M" :> 77) @@ ("O" :> 79) @@ ("P" :> 80) @@ ("T" :> 84) @@
    ("X" :> 88) @@ ("_" :> 95) @@ ("a" :> 97) @@ ("b" :> 98) @@ ("c" :> 99) @@ ("d" :> 100) @@
    ("e" :> 101) @@ ("f" :> 102) @@ ("g" :> 103) @@ ("h" :> 104) @@ ("i" :> 105) @@ ("k" :> 107) @@
    ("l" :> 108) @@ ("m" :> 109) @@ ("n" :> 110) @@ ("o" :> 111) @@ ("p" :> 112) @@ ("r" :> 114) @@
    ("s" :> 115) @@ ("t" :> 116) @@ ("u" :> 117) @@ ("v" :> 118) @@ ("w" :> 119) @@ ("x" :> 120) @@
    ("y" :> 121) @@ ("U+2019" :> 8217)

\* The code units of a run of source characters.
U(cs) == [i \in 1..Len(cs) |-> CodeUnit[cs[i]]]

\* Syntax tree nodes of the two kinds of literal nested in the object literal.
StringLiteral(s) == [node |-> "StringLiteral", body |-> s]
ArrayLiteral(es) == [node |-> "ArrayLiteral", body |-> es]

\* The array literal under the key "macro" (nine [name, description] entries).
MacroItems ==
  ArrayLiteral(<<
    \* ["iblas_asum_for_cuda","asum with cuda"]
    ArrayLiteral(<<
      StringLiteral(U(<<
        "i","b","l","a","s","_","a","s","u","m","_","f","o","r","_","c","u","d","a">>)),
      StringLiteral(U(<<
        "a","s","u","m"," ","w","i","t","h"," ","c","u","d","a">>))
    >>),
    \* ["iblas_axpy_for_cuda","axpy with cuda"]
    ArrayLiteral(<<
      StringLiteral(U(<<
        "i","b","l","a","s","_","a","x","p","y","_","f","o","r","_","c","u","d","a">>)),
      StringLiteral(U(<<
        "a","x","p","y"," ","w","i","t","h"," ","c","u","d","a">>))
    >>),
    \* ["iblas_copy_for_cuda","copy for cuda"]
    ArrayLiteral(<<
      StringLiteral(U(<<
        "i","b","l","a","s","_","c","o","p","y","_","f","o","r","_","c","u","d","a">>)),
      StringLiteral(U(<<
        "c","o","p","y"," ","f","o","r"," ","c","u","d","a">>))
    >>),
    \* ["iblas_dot_for_cuda","dot product for cuda"]
    ArrayLiteral(<<
      StringLiteral(U(<<
        "i","b","l","a","s","_","d","o","t","_","f","o","r","_","c","u","d","a">>)),
      StringLiteral(U(<<
        "d","o","t"," ","p","r","o","d","u","c","t"," ","f","o","r"," ","c","u","d","a">>))
    >>),
    \* ["iblas_gbmv_for_cuda","gbmv for cuda"]
    ArrayLiteral(<<
      StringLiteral(U(<<
        "i","b","l","a","s","_","g","b","m","v","_","f","o","r","_","c","u","d","a">>)),
      StringLiteral(U(<<
        "g","b","m","v"," ","f","o","r"," ","c","u","d","a">>))
    >>),
    \* ["iblas_gemm_for_cuda","gemm for cuda"]
    ArrayLiteral(<<
      StringLiteral(U(<<
        "i","b","l","a","s","_","g","e","m","m","_","f","o","r","_","c","u","d","a">>)),
      StringLiteral(U(<<
        "g","e","m","m"," ","f","o","r"," ","c","u","d","a">>))
    >>),
    \* ["iblas_nrm2_for_cuda","nrm2 for cuda"]
    ArrayLiteral(<<
      StringLiteral(U(<<
        "i","b","l","a","s","_","n","r","m","2","_","f","o","r","_","c","u","d","a">>)),
      StringLiteral(U(<<
        "n","r","m","2"," ","f","o","r"," ","c","u","d","a">>))
    >>),
    \* ["iblas_scal_for_cuda","scalar mul for cuda"]
    ArrayLiteral(<<
      StringLiteral(U(<<
        "i","b","l","a","s","_","s","c","a","l","_","f","o","r","_","c","u","d","a">>)),
      StringLiteral(U(<<
        "s","c","a","l","a","r"," ","m","u","l"," ","f","o","r"," ","c","u","d","a">>))
    >>),
    \* ["iblas_swap_for_cuda","swap matrices for cuda"]
    ArrayLiteral(<<
      StringLiteral(U(<<
        "i","b","l","a","s","_","s","w","a","p","_","f","o","r","_","c","u","d","a">>)),
      StringLiteral(U(<<
        "s","w","a","p"," ","m","a","t","r","i","c","e","s"," ","f","o","r"," ","c","u","d","a">>))
    >>)
  >>)

\* The array literal under the key "mod" (five [name, description] entries).
ModItems ==
  ArrayLiteral(<<
    \* ["binary","Provides the IBlasBinary binary trait for Coaster's Framework implementation."]
    ArrayLiteral(<<
      StringLiteral(U(<<
        "b","i","n","a","r","y">>)),
      StringLiteral(U(<<
        "P","r","o","v","i","d","e","s"," ","t","h","e"," ","I","B","l","a","s","B","i","n","a",
        "r","y"," ","b","i","n","a","r","y"," ","t","r","a","i","t"," ","f","o","r"," ","C","o",
        "a","s","t","e","r","U+2019","s"," ","F","r","a","m","e","w","o","r","k"," ","i","m",
        "p","l","e","m","e","n","t","a","t","i","o","n",".">>))
    >>),
    \* ["frameworks","Provides the specific Framework implementations for the Library Operations."]
    ArrayLiteral(<<
      StringLiteral(U(<<
        "f","r","a","m","e","w","o","r","k","s">>)),
      StringLiteral(U(<<
        "P","r","o","v","i","d","e","s"," ","t","h","e"," ","s","p","e","c","i","f","i","c"," ",
        "F","r","a","m","e","w","o","r","k"," ","i","m","p","l","e","m","e","n","t","a","t","i",
        "o","n","s"," ","f","o","r"," ","t","h","e"," ","L","i","b","r","a","r","y"," ","O","p",
        "e","r","a","t","i","o","n","s",".">>))
    >>),
    \* ["operation","Provides the IOperationX operation traits for Coaster's Framework implementation."]
    ArrayLiteral(<<
      StringLiteral(U(<<
        "o","p","e","r","a","t","i","o","n">>)),
      StringLiteral(U(<<
        "P","r","o","v","i","d","e","s"," ","t","h","e"," ","I","O","p","e","r","a","t","i","o",
        "n","X"," ","o","p","e","r","a","t","i","o","n"," ","t","r","a","i","t","s"," ","f","o",
        "r"," ","C","o","a","s","t","e","r","U+2019","s"," ","F","r","a","m","e","w","o","r",
        "k"," ","i","m","p","l","e","m","e","n","t","a","t","i","o","n",".">>))
    >>),
    \* ["plugin","Provides the IBlas library trait for Coaster implementation."]
    ArrayLiteral(<<
      StringLiteral(U(<<
        "p","l","u","g","i","n">>)),
      StringLiteral(U(<<
        "P","r","o","v","i","d","e","s"," ","t","h","e"," ","I","B","l","a","s"," ","l","i","b",
        "r","a","r","y"," ","t","r","a","i","t"," ","f","o","r"," ","C","o","a","s","t","e","r",
        " ","i","m","p","l","e","m","e","n","t","a","t","i","o","n",".">>))
    >>),
    \* ["transpose","Provides the Transpose functionality for Matrix operations."]
    ArrayLiteral(<<
      StringLiteral(U(<<
        "t","r","a","n","s","p","o","s","e">>)),
      StringLiteral(U(<<
        "P","r","o","v","i","d","e","s"," ","t","h","e"," ","T","r","a","n","s","p","o","s","e",
        " ","f","u","n","c","t","i","o","n","a","l","i","t","y"," ","f","o","r"," ","M","a","t",
        "r","i","x"," ","o","p","e","r","a","t","i","o","n","s",".">>))
    >>)
  >>)
\* ---------------------------------------------------------------------------
\* Variants of the object literal with one slip each, used to show that the
\* properties below depend on the literal.
\* ---------------------------------------------------------------------------
DropLast(s) == SubSeq(s, 1, Len(s) - 1)
SwapFirstTwo(s) == <<s[2], s[1]>> \o SubSeq(s, 3, Len(s))

\* first macro entry has lost its description
ObjectLiteralShortEntry ==
  << [key |-> "macro",
      value |-> ArrayLiteral(<<ArrayLiteral(DropLast(MacroItems.body[1].body))>>
                             \o Tail(MacroItems.body))],
     [key |-> "mod", value |-> ModItems] >>

\* the module transpose is missing
ObjectLiteralMissingMod ==
  << [key |-> "macro", value |-> MacroItems],
     [key |-> "mod", value |-> ArrayLiteral(DropLast(ModItems.body))] >>

\* the macro iblas_asum_for_cuda is listed a second time, with another text
ObjectLiteralDuplicate ==
  << [key |-> "macro",
      value |-> ArrayLiteral(<<MacroItems.body[1]>>
                 \o <<ArrayLiteral(<<MacroItems.body[1].body[1],
                                     MacroItems.body[2].body[2]>>)>>
                 \o Tail(MacroItems.body))],
     [key |-> "mod", value |-> ModItems] >>

\* the modules binary and frameworks are listed in the opposite order
ObjectLiteralUnsorted ==
  << [key |-> "macro", value |-> MacroItems],
     [key |-> "mod", value |-> ArrayLiteral(SwapFirstTwo(ModItems.body))] >>

\* a third category is present
ObjectLiteralExtraKey ==
  << [key |-> "macro", value |-> MacroItems],
     [key |-> "mod", value |-> ModItems],
     [key |-> "struct", value |-> ArrayLiteral(<<>>)] >>

\* the module plugin has an empty description
ObjectLiteralEmptyDescription ==
  << [key |-> "macro", value |-> MacroItems],
     [key |-> "mod",
      value |-> ArrayLiteral(
         [i \in 1..Len(ModItems.body) |->
            IF i = 4
              THEN ArrayLiteral(<<ModItems.body[i].body[1], StringLiteral(<<>>)>>)
              ELSE ModItems.body[i]])] >>

\* The argument of the call: {"macro":[...],"mod":[...]}, its properties in
\* source order.
ObjectLiteral ==
  << [key |-> "macro", value |-> MacroItems],
     [key |-> "mod", value |-> ModItems] >>

\* The identifier in callee position.
Callee == "initSidebarItems"

\* ---------------------------------------------------------------------------
\* Runtime values and the global environment.
\* ---------------------------------------------------------------------------
StringValue(s) == [type |-> "string", value |-> s]
ArrayValue(es) == [type |-> "array", value |-> es]
ObjectValue(ps) == [type |-> "object", value |-> ps]
Undefined == [type |-> "undefined", value |-> <<>>]

\* What a global name can be bound to when the script is loaded.
Bindings == {"undeclared", "undefined", "null", "number", "string", "object", "function"}

OtherGlobalNames == {"other" \o ToString(i) : i \in 1..NumOtherGlobals}
GlobalNames == {Callee} \cup OtherGlobalNames

IsCallable(b) == b = "function"

\* Evaluation of a string literal or an array literal (elements left to right).
RECURSIVE Evaluate(_)
Evaluate(n) ==
  IF n.node = "StringLiteral"
    THEN StringValue(n.body)
    ELSE ArrayValue([i \in 1..Len(n.body) |-> Evaluate(n.body[i])])

HasProperty(o, k) == \E i \in 1..Len(o.value) : o.value[i].key = k
Get(o, k) == o.value[CHOOSE i \in 1..Len(o.value) : o.value[i].key = k].value

\* CreateDataProperty on an object under construction: a repeated key keeps
\* its position and takes the later value.
DefineOwnProperty(o, k, v) ==
  IF HasProperty(o, k)
    THEN ObjectValue([i \in 1..Len(o.value) |->
            IF o.value[i].key = k THEN [key |-> k, value |-> v] ELSE o.value[i]])
    ELSE ObjectValue(Append(o.value, [key |-> k, value |-> v]))

VARIABLES
  globals,  \* the global environment: name -> binding
  pc,       \* position in the evaluation of the statement
  func,     \* value of the callee reference once resolved
  obj,      \* the object built from the object literal
  pi,       \* index of the property being evaluated
  arr,      \* the array built for the current property
  calls,    \* argument lists received by the callee, in order
  error     \* the error the evaluation threw, or "none"

vars == <<globals, pc, func, obj, pi, arr, calls, error>>

Init ==
  /\ globals \in [GlobalNames -> Bindings]
  /\ pc = "start"
  /\ func = "unresolved"
  /\ obj = Undefined
  /\ pi = 0
  /\ arr = Undefined
  /\ calls = <<>>
  /\ error = "none"

\* A ResolveCallee that reads an undeclared name as undefined instead of
\* throwing.
ResolveCalleeLenient ==
  /\ pc = "start"
  /\ func' = IF globals[Callee] = "undeclared" THEN "undefined" ELSE globals[Callee]
  /\ pc' = "object"
  /\ UNCHANGED <<globals, obj, pi, arr, calls, error>>

\* GetValue of the reference initSidebarItems: an unresolvable reference
\* throws before any argument is evaluated.
ResolveCallee ==
  /\ pc = "start"
  /\ IF globals[Callee] = "undeclared"
       THEN /\ error' = "ReferenceError"
            /\ pc' = "thrown"
            /\ UNCHANGED func
       ELSE /\ func' = globals[Callee]
            /\ pc' = "object"
            /\ UNCHANGED error
  /\ UNCHANGED <<globals, obj, pi, arr, calls>>

\* The object literal starts as an empty object.
NewObject ==
  /\ pc = "object"
  /\ obj' = ObjectValue(<<>>)
  /\ pi' = 1
  /\ pc' = IF Len(ObjectLiteral) = 0 THEN "call" ELSE "property"
  /\ UNCHANGED <<globals, func, arr, calls, error>>

\* The array literal of the current property starts as an empty array.
NewArray ==
  /\ pc = "property"
  /\ arr' = ArrayValue(<<>>)
  /\ pc' = "elements"
  /\ UNCHANGED <<globals, func, obj, pi, calls, error>>

\* The next [name, description] entry is evaluated and appended.
AppendElement ==
  /\ pc = "elements"
  /\ Len(arr.value) < Len(ObjectLiteral[pi].value.body)
  /\ arr' = ArrayValue(Append(arr.value,
                Evaluate(ObjectLiteral[pi].value.body[Len(arr.value) + 1])))
  /\ UNCHANGED <<globals, pc, func, obj, pi, calls, error>>

\* The finished array becomes the value of the property.
DefineProperty ==
  /\ pc = "elements"
  /\ Len(arr.value) = Len(ObjectLiteral[pi].value.body)
  /\ obj' = DefineOwnProperty(obj, ObjectLiteral[pi].key, arr)
  /\ pi' = pi + 1
  /\ pc' = IF pi = Len(ObjectLiteral) THEN "call" ELSE "property"
  /\ UNCHANGED <<globals, func, arr, calls, error>>

\* A Call that also leaves the object in a global of the environment.
CallLeakingGlobal ==
  /\ pc = "call"
  /\ IF IsCallable(func)
       THEN /\ calls' = Append(calls, <<obj>>)
            /\ globals' = [g \in GlobalNames |->
                             IF g = Callee THEN globals[g] ELSE "object"]
            /\ pc' = "invoked"
            /\ UNCHANGED error
       ELSE /\ error' = "TypeError"
            /\ pc' = "thrown"
            /\ UNCHANGED <<calls, globals>>
  /\ UNCHANGED <<func, obj, pi, arr>>

\* The call itself: a callee that is not callable throws, a callable one
\* receives the single argument.
Call ==
  /\ pc = "call"
  /\ IF IsCallable(func)
       THEN /\ calls' = Append(calls, <<obj>>)
            /\ pc' = "invoked"
            /\ UNCHANGED error
       ELSE /\ error' = "TypeError"
            /\ pc' = "thrown"
            /\ UNCHANGED calls
  /\ UNCHANGED <<globals, func, obj, pi, arr>>

\* The callee returns; the expression statement and the script are complete.
CalleeReturns ==
  /\ pc = "invoked"
  /\ pc' = "done"
  /\ UNCHANGED <<globals, func, obj, pi, arr, calls, error>>

\* The callee throws; the error propagates out of the script.
CalleeThrows ==
  /\ pc = "invoked"
  /\ error' = "CalleeError"
  /\ pc' = "thrown"
  /\ UNCHANGED <<globals, func, obj, pi, arr, calls>>

Next ==
  \/ ResolveCallee
  \/ NewObject
  \/ NewArray
  \/ AppendElement
  \/ DefineProperty
  \/ Call
  \/ CalleeReturns
  \/ CalleeThrows

Spec == Init /\ [][Next]_vars

\* ---------------------------------------------------------------------------
\* Properties.
\* ---------------------------------------------------------------------------
Categories == {"macro", "mod"}

\* The callee has received a call; Arg is the object it was given.
Passed == Len(calls) >= 1
Arg == calls[1][1]

Entries(o, k) == Get(o, k).value
Name(e) == e.value[1].value
Description(e) == e.value[2].value
Names(o, k) == {Name(Entries(o, k)[i]) : i \in 1..Len(Entries(o, k))}

IsEntry(e) ==
  /\ e.type = "array"
  /\ Len(e.value) = 2
  /\ e.value[1].type = "string"
  /\ e.value[2].type = "string"

\* Order of JavaScript strings: code unit by code unit, a proper prefix first.
StrLess(a, b) ==
  \E k \in 1..(Len(a) + 1) :
    /\ \A j \in 1..(k - 1) : j <= Len(b) /\ a[j] = b[j]
    /\ \/ k = Len(a) + 1 /\ Len(b) >= k
       \/ k <= Len(a) /\ k <= Len(b) /\ a[k] < b[k]

HasPrefix(s, p) == Len(s) >= Len(p) /\ SubSeq(s, 1, Len(p)) = p
HasSuffix(s, p) == Len(s) >= Len(p) /\ SubSeq(s, Len(s) - Len(p) + 1, Len(s)) = p

IblasPrefix == U(<<"i","b","l","a","s","_">>)
ForCudaSuffix == U(<<"_","f","o","r","_","c","u","d","a">>)
MacroName(op) == IblasPrefix \o op \o ForCudaSuffix

NamedOperations ==
  { U(<<"a","s","u","m">>), U(<<"a","x","p","y">>), U(<<"c","o","p","y">>),
    U(<<"d","o","t">>), U(<<"g","e","m","m">>) }

ModuleNames ==
  { U(<<"b","i","n","a","r","y">>),
    U(<<"f","r","a","m","e","w","o","r","k","s">>),
    U(<<"o","p","e","r","a","t","i","o","n">>),
    U(<<"p","l","u","g","i","n">>),
    U(<<"t","r","a","n","s","p","o","s","e">>) }

\* LF, CR, LINE SEPARATOR, PARAGRAPH SEPARATOR
LineTerminators == {10, 13, 8232, 8233}

\* C1: the object passed to initSidebarItems has the keys macro and mod, and
\* the value of each is an array whose every entry is an array of exactly two
\* elements, both of them strings.
C1_Structure ==
  Passed =>
    /\ Arg.type = "object"
    /\ \A k \in Categories :
         /\ HasProperty(Arg, k)
         /\ Get(Arg, k).type = "array"
         /\ \A i \in 1..Len(Entries(Arg, k)) : IsEntry(Entries(Arg, k)[i])

C1_Witness ==
  /\ Passed
  /\ pc = "invoked"
  /\ Len(Entries(Arg, "macro")) = 9
  /\ Len(Entries(Arg, "mod")) = 5

\* C2: when initSidebarItems is a function, loading the file calls it exactly
\* once, with exactly one argument, the object built from the literal; in no
\* environment is there a second call, no global binding is ever defined or
\* assigned, and the object does not change once the literal is evaluated.
Built == pc \in {"call", "invoked", "done", "thrown"} /\ obj.type = "object"

C2_FrameEffect ==
  /\ [](/\ Len(calls) <= 1
        /\ \A c \in 1..Len(calls) : Len(calls[c]) = 1 /\ calls[c][1] = obj
        /\ (pc \in {"done", "thrown"} /\ IsCallable(globals[Callee]))
              => (Len(calls) = 1 /\ Len(obj.value) = Len(ObjectLiteral)))
  /\ [][/\ globals' = globals
        /\ Built => obj' = obj
        /\ Passed => calls' = calls]_vars

C2_Witness ==
  /\ pc = "done"
  /\ Len(calls) = 1
  /\ Len(calls[1]) = 1
  /\ calls[1][1] = obj

\* C3: the names under mod are binary, frameworks, operation, plugin and
\* transpose; every name under macro has the form iblas_<op>_for_cuda with a
\* non-empty <op>, and asum, axpy, copy, dot and gemm are among the operations.
C3_Names ==
  Passed =>
    /\ Names(Arg, "mod") = ModuleNames
    /\ \A n \in Names(Arg, "macro") :
         /\ HasPrefix(n, IblasPrefix)
         /\ HasSuffix(n, ForCudaSuffix)
         /\ Len(n) > Len(IblasPrefix) + Len(ForCudaSuffix)
    /\ \A op \in NamedOperations : MacroName(op) \in Names(Arg, "macro")

C3_Witness ==
  /\ Passed
  /\ U(<<"t","r","a","n","s","p","o","s","e">>) \in Names(Arg, "mod")
  /\ MacroName(U(<<"g","e","m","m">>)) \in Names(Arg, "macro")

\* C4: within a category no name appears in more than one entry, so the
\* entries map every name to exactly one description.
C4_UniqueNames ==
  Passed =>
    \A k \in Categories :
      \A i, j \in 1..Len(Entries(Arg, k)) :
        Name(Entries(Arg, k)[i]) = Name(Entries(Arg, k)[j]) => i = j

C4_Witness ==
  /\ Passed
  /\ Cardinality(Names(Arg, "macro")) = 9
  /\ Cardinality(Names(Arg, "mod")) = 5

\* C5 as stated: loading the file never raises an error, whatever
\* initSidebarItems is bound to.
C5_NoFailure == pc # "thrown"

\* C5, amended: the load raises a ReferenceError when initSidebarItems is not
\* declared (before anything is built or called), a TypeError when it is
\* declared but not callable (after the object is built, without any call), and
\* otherwise no error except one the called function throws itself.
C5_FailureModes ==
  /\ (globals[Callee] = "undeclared" /\ pc # "start")
        => (pc = "thrown" /\ error = "ReferenceError"
            /\ obj = Undefined /\ calls = <<>>)
  /\ (pc = "thrown" /\ globals[Callee] \notin {"undeclared", "function"})
        => (error = "TypeError" /\ calls = <<>>
            /\ Len(obj.value) = Len(ObjectLiteral))
  /\ (pc = "thrown" /\ IsCallable(globals[Callee]))
        => (error = "CalleeError" /\ Len(calls) = 1)
  /\ pc = "done" => (error = "none" /\ IsCallable(globals[Callee]))
  /\ error # "none" => pc = "thrown"
  /\ pc \in {"call", "invoked", "done"} => globals[Callee] # "undeclared"

C5_Witness ==
  /\ pc = "thrown"
  /\ error = "TypeError"
  /\ globals[Callee] = "undefined"
  /\ Len(obj.value) = 2

\* C6: within a category the names of adjacent entries are in strictly
\* ascending lexicographic order.
C6_Sorted ==
  Passed =>
    \A k \in Categories :
      \A i \in 1..(Len(Entries(Arg, k)) - 1) :
        StrLess(Name(Entries(Arg, k)[i]), Name(Entries(Arg, k)[i + 1]))

C6_Witness ==
  /\ Passed
  /\ Len(Entries(Arg, "mod")) >= 2
  /\ StrLess(Name(Entries(Arg, "mod")[1]), Name(Entries(Arg, "mod")[2]))
  /\ ~StrLess(Name(Entries(Arg, "mod")[2]), Name(Entries(Arg, "mod")[1]))

\* C7: the object passed to initSidebarItems has no key other than macro and
\* mod, and the list under each of the two keys is non-empty.
C7_OnlyTwoKeys ==
  Passed =>
    /\ {Arg.value[i].key : i \in 1..Len(Arg.value)} = Categories
    /\ Len(Arg.value) = 2
    /\ \A k \in Categories : Len(Entries(Arg, k)) > 0

C7_Witness ==
  /\ Passed
  /\ Len(Arg.value) = 2
  /\ Arg.value[1].key = "macro"
  /\ Arg.value[2].key = "mod"

\* C8: in every entry the name is a non-empty string and the description is a
\* non-empty string without a line break.
C8_OneLine ==
  Passed =>
    \A k \in Categories :
      \A i \in 1..Len(Entries(Arg, k)) :
        /\ IsEntry(Entries(Arg, k)[i])
        /\ Len(Name(Entries(Arg, k)[i])) > 0
        /\ Len(Description(Entries(Arg, k)[i])) > 0
        /\ \A c \in 1..Len(Description(Entries(Arg, k)[i])) :
             Description(Entries(Arg, k)[i])[c] \notin LineTerminators

C8_Witness ==
  /\ Passed
  /\ \E i \in 1..Len(Entries(Arg, "mod")) :
       /\ 8217 \in {Description(Entries(Arg, "mod")[i])[c] :
                      c \in 1..Len(Description(Entries(Arg, "mod")[i]))}
       /\ Len(Description(Entries(Arg, "mod")[i])) > 70

====
